---- MODULE Spec2Model ----
(***************************************************************************)
(* Model of the pagination controller of src/routes/+page.svelte: the      *)
(* collection state held in the component's runes, the handlers that       *)
(* change it, and the HTTP requests that are outstanding between an await   *)
(* and its continuation.  A step of the model is one browser task: a DOM   *)
(* event handler, or the arrival of a response, run together with the      *)
(* microtasks (effects, await continuations) it schedules.                 *)
(***************************************************************************)
EXTENDS Integers, Sequences, FiniteSets, TLC

VARIABLES
    channelSlug,    \* line 25
    contents,       \* line 26
    loading,        \* line 27
    error,          \* line 28
    isMobile,       \* line 29
    columnCount,    \* line 30
    minColumns,     \* line 31
    totalPages,     \* line 33
    currentPage,    \* line 34
    isLoadingMore,  \* line 35
    hasMorePages,   \* line 36
    selectedImage,  \* line 37
    inflight,       \* the requests awaited at lines 102/108, 119/128, in issue order
    ev,             \* history: the step that was taken last
    appended,       \* history: pages of the current load whose blocks were appended
    fetched,        \* history: the image blocks answered for each of those pages
    loadT           \* history: totalPages given by the current load's own metadata

\* the state of the column controls and of the lightbox
view == <<isMobile, columnCount, minColumns, selectedImage>>

\* the pagination state and its history
paging == <<loading, error, totalPages, currentPage, isLoadingMore,
            hasMorePages, inflight, appended, fetched, loadT>>

vars == <<channelSlug, contents, loading, error, totalPages, currentPage,
          isLoadingMore, hasMorePages, inflight, ev, appended, fetched, loadT,
          isMobile, columnCount, minColumns, selectedImage>>

----------------------------------------------------------------------------
(* Bounds of the model *)

\* requests outstanding at once (a channel change needs a free slot)
MaxInflight == 2
\* cap on currentPage: no page beyond it is requested
MaxPage == 2
\* metadata.length ranges over 0, 50, ..., 50 * MaxHalfPages
MaxHalfPages == 3
\* blocks in one page of the API's answer
MaxBlocks == 1

(* Program constants *)

PER_PAGE == 100

NoSlug == ""
Slugs == {"a", "b"}
NULL == "null"
MetaError == "Failed to fetch channel metadata"

Lengths == {(k * PER_PAGE) \div 2 : k \in 0..MaxHalfPages}

\* Math.ceil(totalItems / PER_PAGE)
CeilDiv(n, d) == (n + d - 1) \div d

----------------------------------------------------------------------------
(* Blocks and the API's answers *)

\* An optional value (a field marked ? in ArenaBlock, null, undefined): the
\* empty sequence when absent, the one-element sequence of the value otherwise.
None == <<>>
Some(x) == <<x>>

\* ArenaBlock.image and ArenaBlock.attachment, lines 13-21
Image(url) == Some([display |-> [url |-> url]])
Attachment(url, content_type) == Some([url |-> url, content_type |-> content_type])

\* ArenaBlock, lines 5-22; chan is the channel the block belongs to
Block(id, chan, class, image, attachment) ==
    [id |-> id, chan |-> chan, class |-> class, image |-> image,
     attachment |-> attachment]

\* The blocks a channel of the API may hold in the loads that are explored.
ApiBlocks(slug) ==
    IF slug = NoSlug THEN {}
    ELSE { Block(1, slug, "Image", Image("A"), None),
           Block(2, slug, "Attachment", None, Attachment(Some("B"), Some("image/png"))),
           Block(3, slug, "Text", None, None),
           Block(4, slug, "Attachment", None,
                 Attachment(Some("B"), Some("application/pdf"))) }

\* pageData.contents of one answer: any sequence of up to MaxBlocks blocks
PageBodies(slug) ==
    UNION { [1..n -> ApiBlocks(slug)] : n \in 0..MaxBlocks }

StartsWithImage(ct) == ct \in {"image/png"}

\* lines 168-171: block.class === 'Image' || (block.attachment &&
\* block.attachment.content_type?.startsWith('image/'))
IsImageBlock(b) ==
    \/ b.class = "Image"
    \/ /\ b.attachment # None
       /\ b.attachment[1].content_type # None
       /\ StartsWithImage(b.attachment[1].content_type[1])

ImageBlocks(body) == SelectSeq(body, IsImageBlock)

----------------------------------------------------------------------------
(* Outstanding requests *)

MetaTask(slug) ==
    [kind |-> "meta", slug |-> slug, page |-> 0, origin |-> "load", cur |-> TRUE]

PageTask(slug, p, origin) ==
    [kind |-> "page", slug |-> slug, page |-> p, origin |-> origin, cur |-> TRUE]

RemoveAt(s, i) == SubSeq(s, 1, i - 1) \o SubSeq(s, i + 1, Len(s))

\* a new load supersedes every request issued before it
Superseded(s) == [i \in 1..Len(s) |-> [s[i] EXCEPT !.cur = FALSE]]

PageRequests == {i \in 1..Len(inflight) : inflight[i].kind = "page"}
MetaRequests == {i \in 1..Len(inflight) : inflight[i].kind = "meta"}

\* the answers kept so far, with the blocks answered for page p added
Recorded(f, p, blocks) ==
    [q \in DOMAIN f \cup {p} |-> IF q = p THEN blocks ELSE f[q]]

Event(op, ok, tag, page, cur, called, issued) ==
    [op |-> op, ok |-> ok, tag |-> tag, page |-> page, cur |-> cur,
     called |-> called, issued |-> issued]

----------------------------------------------------------------------------
Init ==
    /\ channelSlug = NoSlug
    /\ contents = <<>>
    /\ loading = FALSE
    /\ error = NULL
    /\ totalPages = 1
    /\ currentPage = 1
    /\ isLoadingMore = FALSE
    /\ hasMorePages = TRUE
    /\ inflight = <<>>
    /\ ev = Event("init", TRUE, NoSlug, 0, TRUE, FALSE, 0)
    /\ appended = {}
    /\ fetched = <<>>
    /\ loadT = -1
    /\ isMobile = FALSE
    /\ columnCount = 5
    /\ minColumns = 1
    /\ selectedImage = None

----------------------------------------------------------------------------
(* loadNextPage, lines 158-182 *)

\* line 159 without the test of isLoadingMore
LoadNextPageReturnsEarlyNoReentrancy == ~hasMorePages

\* line 159 without the test of hasMorePages
LoadNextPageReturnsEarlyIgnoresExhaustion == isLoadingMore

\* line 159: the re-entrancy guard
LoadNextPageReturnsEarly == isLoadingMore \/ ~hasMorePages

\* lines 159-166: up to the await of fetchChannelPage(currentPage); rest is what
\* stays outstanding besides the new request
LoadNextPage(rest, origin) ==
    IF LoadNextPageReturnsEarly
    THEN /\ UNCHANGED <<isLoadingMore, currentPage>>
         /\ inflight' = rest
    ELSE /\ currentPage < MaxPage
         /\ isLoadingMore' = TRUE
         /\ currentPage' = currentPage + 1
         /\ inflight' = Append(rest, PageTask(channelSlug, currentPage + 1, origin))

\* the page number the call requests, 0 when it returns early
Issued == IF LoadNextPageReturnsEarly THEN 0 ELSE currentPage + 1

\* lines 168-176: the answer arrived
PageFetchSucceeded(body) ==
    /\ contents' = contents \o ImageBlocks(body)
    /\ hasMorePages' = (currentPage < totalPages)
    /\ error' = error

\* lines 177-178 with the error propagated instead of logged
PageFetchFailedSetsError ==
    /\ contents' = <<>>
    /\ error' = MetaError
    /\ hasMorePages' = hasMorePages

\* lines 177-178: the catch only logs
PageFetchFailed ==
    /\ UNCHANGED <<contents, hasMorePages, error>>

----------------------------------------------------------------------------
(* fetchChannelData, lines 185-217 *)

\* lines 186-196, up to the await of fetchChannelMetadata()
FetchChannelDataStart(s) ==
    /\ loading' = TRUE
    /\ error' = NULL
    /\ contents' = <<>>
    /\ currentPage' = 0
    /\ hasMorePages' = TRUE
    /\ inflight' = Append(Superseded(inflight), MetaTask(s))
    /\ appended' = {}
    /\ fetched' = <<>>
    /\ loadT' = -1
    /\ UNCHANGED <<totalPages, isLoadingMore>>

\* lines 206-216 without the finally
MetadataFailedKeepsLoading ==
    /\ error' = MetaError
    /\ contents' = <<>>
    /\ UNCHANGED loading

\* lines 206-216: the catch and the finally after a failed metadata request
MetadataFailed ==
    /\ error' = MetaError
    /\ contents' = <<>>
    /\ loading' = FALSE

----------------------------------------------------------------------------
(* The handlers *)

\* handleChannelChange (265-272), the URL effect (77-83) and the fetch effect
\* (277-281), which runs when the value of channelSlug has changed
HandleChannelChange(s) ==
    /\ s # channelSlug
    /\ channelSlug' = s
    /\ ev' = Event("change", TRUE, s, 0, TRUE, FALSE, 0)
    /\ IF s = NoSlug
       THEN UNCHANGED <<contents, loading, error, totalPages, currentPage,
                        isLoadingMore, hasMorePages, inflight, appended, fetched,
                        loadT>>
       ELSE /\ Len(inflight) < MaxInflight
            /\ FetchChannelDataStart(s)
    /\ UNCHANGED view

\* lines 143-148
ScrollGuard(near) == ~isLoadingMore /\ hasMorePages /\ ~loading /\ near

\* handleScroll, lines 142-151; near is isNearBottom(container)
HandleScroll(near) ==
    /\ IF ScrollGuard(near)
       THEN /\ LoadNextPage(inflight, "scroll")
            /\ ev' = Event("scroll", TRUE, channelSlug, 0, TRUE, TRUE, Issued)
       ELSE /\ UNCHANGED <<isLoadingMore, currentPage, inflight>>
            /\ ev' = Event("scroll", TRUE, channelSlug, 0, TRUE, FALSE, 0)
    /\ UNCHANGED <<channelSlug, contents, loading, error, totalPages,
                   hasMorePages, appended, fetched, loadT>>
    /\ UNCHANGED view

\* the continuation of fetchChannelData after fetchChannelMetadata (101-114)
\* settles: lines 196-216
MetaResponse(i, ok, len) ==
    LET t == inflight[i]
        rest == RemoveAt(inflight, i)
    IN  /\ t.kind = "meta"
        /\ IF ok
           THEN /\ totalPages' = CeilDiv(len, PER_PAGE)
                /\ loadT' = IF t.cur THEN CeilDiv(len, PER_PAGE) ELSE loadT
                /\ LoadNextPage(rest, "load")
                /\ loading' = IF LoadNextPageReturnsEarly THEN FALSE ELSE loading
                /\ ev' = Event("meta", TRUE, t.slug, 0, t.cur, TRUE, Issued)
                /\ UNCHANGED <<contents, error>>
           ELSE /\ MetadataFailed
                /\ inflight' = rest
                /\ ev' = Event("meta", FALSE, t.slug, 0, t.cur, FALSE, 0)
                /\ UNCHANGED <<totalPages, loadT, isLoadingMore, currentPage>>
        /\ UNCHANGED <<channelSlug, hasMorePages, appended, fetched>>
        /\ UNCHANGED view

\* the continuation of loadNextPage after fetchChannelPage (117-129) settles:
\* lines 166-181, and lines 204-216 of fetchChannelData when it made the call
PageResponse(i, ok, body) ==
    LET t == inflight[i]
    IN  /\ t.kind = "page"
        /\ IF ok THEN PageFetchSucceeded(body) ELSE PageFetchFailed
        /\ isLoadingMore' = FALSE
        /\ loading' = IF t.origin = "load" THEN FALSE ELSE loading
        /\ inflight' = RemoveAt(inflight, i)
        /\ appended' = IF ok /\ t.cur THEN appended \cup {t.page} ELSE appended
        /\ fetched' = IF ok /\ t.cur THEN Recorded(fetched, t.page, ImageBlocks(body)) ELSE fetched
        /\ ev' = Event("page", ok, t.slug, t.page, t.cur, FALSE, 0)
        /\ UNCHANGED <<channelSlug, totalPages, currentPage, loadT>>
        /\ UNCHANGED view

Next ==
    \/ \E s \in Slugs \cup {NoSlug} : HandleChannelChange(s)
    \/ \E near \in BOOLEAN : HandleScroll(near)
    \/ \E i \in 1..Len(inflight), ok \in BOOLEAN, len \in Lengths :
          MetaResponse(i, ok, len)
    \/ \E i \in 1..Len(inflight), ok \in BOOLEAN :
          \E body \in PageBodies(inflight[i].slug) : PageResponse(i, ok, body)

Spec == Init /\ [][Next]_vars

----------------------------------------------------------------------------
(* The claims *)

NumPageRequests == Cardinality(PageRequests)

\* C1 (as stated): in every reachable state at most one of loading and
\* isLoadingMore is true.
C1_AtMostOneLoadingFlag == ~(loading /\ isLoadingMore)

\* C1 (amended): loading and isLoadingMore are both true only while a run of
\* fetchChannelData is under way, that is, while a metadata request or a page
\* request issued by fetchChannelData is outstanding.
C1_BothFlagsOnlyDuringLoad ==
    (loading /\ isLoadingMore) =>
        \E i \in 1..Len(inflight) :
            inflight[i].kind = "meta" \/ inflight[i].origin = "load"

\* both flags are true while fetchChannelData fetches the first page
C1_FirstPageBothFlags ==
    /\ loading /\ isLoadingMore
    /\ \E i \in PageRequests : inflight[i].origin = "load" /\ inflight[i].page = 1

\* C2 (as stated): at most one HTTP request, metadata or page, is outstanding
\* at any instant.
C2_AtMostOneRequest == Len(inflight) <= 1

\* C2 (amended): at most one page request is outstanding at any instant
\* (metadata requests overlap it and each other when channelSlug changes).
C2_AtMostOnePageRequest == NumPageRequests <= 1

\* a page request and a metadata request are outstanding together
C2_OverlappingRequests == PageRequests # {} /\ MetaRequests # {}

\* C3: the answer to a page request issued for a channel that is no longer
\* channelSlug is discarded: it changes neither contents nor hasMorePages.
C3_StaleResponseDiscarded ==
    [][(ev'.op = "page" /\ ev'.tag # channelSlug) =>
          (contents' = contents /\ hasMorePages' = hasMorePages)]_vars

\* C4: once as many pages of the current load have been fetched successfully
\* as its metadata gives (T >= 1), hasMorePages is false, and while it is
\* false no page request is issued unless channelSlug changes.
C4_ExhaustedAfterTPages ==
    /\ []((loadT >= 1 /\ Cardinality(appended) >= loadT) => ~hasMorePages)
    /\ [][(~hasMorePages /\ channelSlug' = channelSlug) => ev'.issued = 0]_vars

\* C5: a call of loadNextPage made while isLoadingMore is true or hasMorePages
\* is false issues no request and leaves currentPage, contents, hasMorePages
\* and isLoadingMore unchanged.
C5_GuardedCallIsNoOp ==
    [][(ev'.called /\ (isLoadingMore \/ ~hasMorePages)) =>
          /\ ev'.issued = 0
          /\ NumPageRequests' = NumPageRequests
          /\ UNCHANGED <<currentPage, contents, hasMorePages, isLoadingMore>>]_vars

\* fetchChannelData has called loadNextPage while a page request was outstanding
C5_GuardedCallHappened ==
    ev.op = "meta" /\ ev.called /\ ev.issued = 0 /\ isLoadingMore

\* C6: after the request for page k has failed, the next page request made by
\* scrolling is for page k again.
C6_FailedPageIsRetried ==
    [][(ev.op = "page" /\ ~ev.ok /\ ev.cur /\ ev'.op = "scroll" /\ ev'.issued > 0)
          => ev'.issued = ev.page]_vars

\* C7: while the error of a failed metadata request is set and channelSlug
\* does not change, no page request is issued and contents stays empty.
C7_NoPageAfterMetadataFailure ==
    [][(error # NULL /\ channelSlug' = channelSlug) =>
          (ev'.issued = 0 /\ contents' = <<>>)]_vars

\* C8: a failed page fetch leaves error, contents and hasMorePages as they
\* were and resets isLoadingMore to false.
C8_FailedPageLeavesState ==
    [][(ev'.op = "page" /\ ~ev'.ok) =>
          /\ UNCHANGED <<error, contents, hasMorePages>>
          /\ isLoadingMore' = FALSE]_vars

\* a page fetch has failed with blocks on display and more pages to come
C8_PageFailedWithContents ==
    /\ ev.op = "page" /\ ~ev.ok
    /\ contents # <<>> /\ error = NULL /\ hasMorePages /\ ~isLoadingMore

\* C9: in every reachable state hasMorePages is false if and only if
\* currentPage >= totalPages.
C9_ExhaustedIffCounters == (~hasMorePages) <=> (currentPage >= totalPages)

\* C10: within one load the pages are requested in strictly ascending order,
\* none twice, and page k+1 is requested only after the blocks of page k have
\* been appended.
C10_PagesInOrder ==
    [][(loadT >= 0 /\ ev'.issued > 0) =>
          /\ ev'.issued > currentPage
          /\ (ev'.issued > 1 => (ev'.issued - 1) \in appended)]_vars

NumMetaRequests == Cardinality(MetaRequests)

\* C11: a load issues its metadata request exactly once (only a change of
\* channelSlug issues one, and only one), and no page request for a channel
\* is issued before the metadata request of its load has succeeded.
C11_MetadataBeforePages ==
    [][/\ (NumMetaRequests' > NumMetaRequests =>
              (ev'.op = "change" /\ NumMetaRequests' = NumMetaRequests + 1))
       /\ ((channelSlug' # NoSlug /\ ev'.issued > 0) => loadT' >= 0)]_vars

\* C18: while channelSlug is empty no request is issued and currentPage does
\* not change, whatever scroll events occur.
C18_IdleWhileNoChannel ==
    [][(channelSlug = NoSlug /\ channelSlug' = NoSlug) =>
          /\ ev'.issued = 0
          /\ Len(inflight') <= Len(inflight)
          /\ currentPage' = currentPage]_vars

\* C19: once the metadata of the current load has given totalPages, no page
\* request is issued for a page number greater than totalPages, and
\* currentPage never exceeds totalPages.
C19_PageWithinTotal ==
    /\ [](loadT >= 0 => currentPage <= totalPages)
    /\ [][(loadT' >= 0 /\ ev'.issued > 0) => ev'.issued <= totalPages']_vars

\* the requests issued since the current load began
CurrentRequests == {i \in 1..Len(inflight) : inflight[i].cur}

\* C20: isLoadingMore is true exactly while a page request is outstanding;
\* loading is true whenever the metadata request or the first-page request
\* of the most recent load is outstanding; with nothing outstanding both
\* flags are false.
C20_FlagsTrackRequests ==
    /\ isLoadingMore <=> (PageRequests # {})
    /\ (\E i \in CurrentRequests :
            \/ inflight[i].kind = "meta"
            \/ (inflight[i].origin = "load" /\ inflight[i].page = 1)) => loading
    /\ (inflight = <<>>) => (~loading /\ ~isLoadingMore)

IsPrefix(s, u) == Len(s) <= Len(u) /\ SubSeq(u, 1, Len(s)) = s

RECURSIVE ConcatFetched(_)
\* the blocks answered for pages 1..k of the current load, in page order
ConcatFetched(k) ==
    IF k = 0 THEN <<>> ELSE ConcatFetched(k - 1) \o fetched[k]

\* C17: during a load, whenever no request is outstanding, contents is the
\* concatenation in page order of the image blocks of pages 1..currentPage
\* of the current channel, and contents never shrinks or reorders within a
\* load.
C17_ContentsIsPagesInOrder ==
    /\ []((channelSlug # NoSlug /\ inflight = <<>>) =>
            /\ DOMAIN fetched = 1..currentPage
            /\ contents = ConcatFetched(currentPage)
            /\ \A i \in 1..Len(contents) :
                  /\ contents[i].chan = channelSlug
                  /\ (contents[i].class = "Image"
                        \/ (contents[i].attachment # None /\
                            contents[i].attachment[1].content_type = Some("image/png"))))
    /\ [][ev'.op # "change" => IsPrefix(contents, contents')]_vars

----------------------------------------------------------------------------
(* Loads whose requests all complete successfully, with no scroll events *)

\* a metadata or page request completes successfully
ResponseOk ==
    \/ \E i \in 1..Len(inflight), len \in Lengths : MetaResponse(i, TRUE, len)
    \/ \E i \in 1..Len(inflight) :
          \E body \in PageBodies(inflight[i].slug) : PageResponse(i, TRUE, body)

NextLive ==
    \/ \E s \in Slugs \cup {NoSlug} : HandleChannelChange(s)
    \/ ResponseOk

\* every outstanding request is answered in the end
SpecLive == Init /\ [][NextLive]_vars /\ WF_vars(ResponseOk)

\* C16: when channelSlug has changed to a non-empty value and does not change
\* again, page 1 of that load is requested and appended in the end, with no
\* scroll event, given that every request completes successfully.
C16_FirstPageEventuallyLoaded ==
    \A s \in Slugs : <>[](channelSlug = s) => <>[](1 \in appended)

----------------------------------------------------------------------------
(* The column controls, lines 40-71 and 219-262 *)

\* line 32; nothing assigns it
maxColumns == 10
\* line 230
mobileMax == 5
\* values typed into the column input range over 0..MaxColumnInput
MaxColumnInput == 11

\* lines 44 and 56
MinColumnsFor(mobile) == IF mobile THEN 1 ELSE 2
\* line 45
InitialColumnsFor(mobile) == IF mobile THEN 2 ELSE 5

\* a step of the column controls: applied tells whether it passed its test,
\* value is the number it was given (0 when it takes none)
ViewEvent(op, applied, value) ==
    Event(op, applied, channelSlug, value, TRUE, FALSE, 0)

\* the channel "a" after its only page, of the image blocks given, has arrived
LoadedWith(blocks) ==
    /\ channelSlug = "a"
    /\ contents = blocks
    /\ loading = FALSE
    /\ error = NULL
    /\ totalPages = 1
    /\ currentPage = 1
    /\ isLoadingMore = FALSE
    /\ hasMorePages = FALSE
    /\ inflight = <<>>
    /\ ev = Event("page", TRUE, "a", 1, TRUE, FALSE, 0)
    /\ appended = {1}
    /\ fetched = <<blocks>>
    /\ loadT = 1

LoadedBlock == CHOOSE b \in ApiBlocks("a") : b.id = 1
Loaded == LoadedWith(<<LoadedBlock>>)

\* the component before a channel is entered (lines 25-37)
Unloaded ==
    /\ channelSlug = NoSlug
    /\ contents = <<>>
    /\ loading = FALSE
    /\ error = NULL
    /\ totalPages = 1
    /\ currentPage = 1
    /\ isLoadingMore = FALSE
    /\ hasMorePages = TRUE
    /\ inflight = <<>>
    /\ ev = Event("init", TRUE, NoSlug, 0, TRUE, FALSE, 0)
    /\ appended = {}
    /\ fetched = <<>>
    /\ loadT = -1

\* the controls once the effect of lines 40-47 has run in a window that is
\* narrower than 768px (mobile) or not
Mounted ==
    /\ \E mobile \in BOOLEAN :
          /\ isMobile = mobile
          /\ minColumns = MinColumnsFor(mobile)
          /\ columnCount = InitialColumnsFor(mobile)
    /\ selectedImage = None

InitView == (Unloaded \/ Loaded) /\ Mounted

\* line 221
DecreaseAllowed == columnCount > minColumns

\* decreaseColumns, lines 220-226
DecreaseColumns ==
    /\ columnCount' = IF DecreaseAllowed THEN columnCount - 1 ELSE columnCount
    /\ ev' = ViewEvent("decrease", DecreaseAllowed, 0)
    /\ UNCHANGED <<channelSlug, contents, paging, isMobile, minColumns,
                   selectedImage>>

\* lines 230-232 with the desktop maximum on every device
CurrentMaxIgnoresMobile == maxColumns

\* lines 230-232
CurrentMax == IF isMobile THEN mobileMax ELSE maxColumns

\* increaseColumns, lines 229-239
IncreaseColumns ==
    /\ columnCount' = IF columnCount < CurrentMax THEN columnCount + 1
                                                  ELSE columnCount
    /\ ev' = ViewEvent("increase", columnCount < CurrentMax, 0)
    /\ UNCHANGED <<channelSlug, contents, paging, isMobile, minColumns,
                   selectedImage>>

\* line 257, for the number newValue that parseInt gave
ColumnChangeAccepted(newValue) ==
    newValue >= minColumns /\ newValue <= maxColumns

\* handleColumnChange, lines 253-262
HandleColumnChange(newValue) ==
    /\ columnCount' = IF ColumnChangeAccepted(newValue) THEN newValue
                                                        ELSE columnCount
    /\ ev' = ViewEvent("column", ColumnChangeAccepted(newValue), newValue)
    /\ UNCHANGED <<channelSlug, contents, paging, isMobile, minColumns,
                   selectedImage>>

\* lines 58-66
Clamped(newIsMobile, count) ==
    IF newIsMobile THEN (IF count > 5 THEN 5 ELSE count)
                   ELSE (IF count < 2 THEN 2 ELSE count)

\* handleResize, lines 53-67, for a window that is now narrower than 768px
\* (newIsMobile) or not.  The effect of lines 40-47 reads isMobile, so a
\* change of isMobile may run it again (rerun) and reset columnCount.
HandleResize(newIsMobile, rerun) ==
    /\ rerun => newIsMobile # isMobile
    /\ isMobile' = newIsMobile
    /\ minColumns' = MinColumnsFor(newIsMobile)
    /\ columnCount' = IF rerun THEN InitialColumnsFor(newIsMobile)
                                ELSE Clamped(newIsMobile, columnCount)
    /\ ev' = ViewEvent("resize", newIsMobile # isMobile, 0)
    /\ UNCHANGED <<channelSlug, contents, paging, selectedImage>>

NextView ==
    \/ DecreaseColumns
    \/ IncreaseColumns
    \/ \E newValue \in 0..MaxColumnInput : HandleColumnChange(newValue)
    \/ \E newIsMobile \in BOOLEAN, rerun \in BOOLEAN :
          HandleResize(newIsMobile, rerun)

SpecView == InitView /\ [][NextView]_vars

\* C12: decreaseColumns leaves columnCount alone when columnCount <= minColumns
\* and increaseColumns leaves it alone when columnCount is at least the
\* effective maximum (5 when isMobile, maxColumns otherwise); otherwise each
\* changes columnCount by exactly 1; neither changes anything else of the
\* component's state.
C12_ColumnButtonsClamp ==
    [][/\ ev'.op = "decrease" =>
            /\ columnCount' = IF columnCount <= minColumns THEN columnCount
                                                           ELSE columnCount - 1
            /\ UNCHANGED <<channelSlug, contents, paging, isMobile, minColumns,
                           selectedImage>>
       /\ ev'.op = "increase" =>
            /\ columnCount' =
                  IF columnCount >= (IF isMobile THEN 5 ELSE maxColumns)
                  THEN columnCount ELSE columnCount + 1
            /\ UNCHANGED <<channelSlug, contents, paging, isMobile, minColumns,
                           selectedImage>>]_vars

\* C12, its case: decreaseColumns was called with minColumns = 2 and
\* columnCount = 2 and changed nothing; the channel's blocks are still shown
C12_DecreaseAtMinimum ==
    /\ ev.op = "decrease" /\ ~ev.ok
    /\ minColumns = 2 /\ columnCount = 2
    /\ contents # <<>>

\* C13: after any sequence of increaseColumns, decreaseColumns,
\* handleColumnChange and resizes, columnCount is in 1..5 when isMobile and in
\* 2..maxColumns otherwise.
C13_ColumnCountWithinDeviceBounds ==
    columnCount \in (IF isMobile THEN 1..5 ELSE 2..maxColumns)

----------------------------------------------------------------------------
(* The grid and the lightbox, lines 285-305 and 356-414 *)

\* blocks shown at once in the grid
MaxShown == 2

\* lines 369 and 403
Placeholder == "https://via.placeholder.com/300"

\* the image blocks of a channel, by what their image and attachment hold
ImageFields == {None, Image(""), Image("A")}
AttachmentFields ==
    {None} \cup {Attachment(url, Some("image/png")) :
                   url \in {None, Some(""), Some("B")}}
RenderBlocks ==
    {Block(1, "a", "Image", image, attachment) :
        image \in ImageFields, attachment \in AttachmentFields}

\* whether an optional string counts as true in && and ||
Truthy(value) == value # None /\ value[1] # ""

\* block.image && block.image.display.url
ImageUrl(block) ==
    IF block.image = None THEN None ELSE Some(block.image[1].display.url)

\* block.attachment && block.attachment.url
AttachmentUrl(block) ==
    IF block.attachment = None THEN None ELSE block.attachment[1].url

\* lines 367-369 with the two operands of the first || exchanged
GridSrcAttachmentFirst(block) ==
    IF Truthy(AttachmentUrl(block)) THEN AttachmentUrl(block)[1]
    ELSE IF Truthy(ImageUrl(block)) THEN ImageUrl(block)[1]
    ELSE Placeholder

\* the src of the grid's <img>, lines 367-369
GridSrc(block) ==
    IF Truthy(ImageUrl(block)) THEN ImageUrl(block)[1]
    ELSE IF Truthy(AttachmentUrl(block)) THEN AttachmentUrl(block)[1]
    ELSE Placeholder

\* the src of the lightbox's <img>, lines 401-403
LightboxSrc(selected) ==
    IF Truthy(ImageUrl(selected)) THEN ImageUrl(selected)[1]
    ELSE IF Truthy(AttachmentUrl(selected)) THEN AttachmentUrl(selected)[1]
    ELSE Placeholder

InitRender ==
    /\ \E n \in 1..MaxShown : \E blocks \in [1..n -> RenderBlocks] :
          LoadedWith(blocks)
    /\ Mounted

\* lines 341-355: the grid is rendered
GridShown ==
    ~loading /\ error = NULL /\ channelSlug # NoSlug /\ contents # <<>>

\* openImage (285-287), from the button of cell i (364)
OpenImage(i) ==
    /\ GridShown
    /\ selectedImage' = Some(contents[i])
    /\ ev' = ViewEvent("open", TRUE, i)
    /\ UNCHANGED <<channelSlug, contents, paging, isMobile, columnCount,
                   minColumns>>

\* closeImage (289-291), from a click on the overlay (387-390)
CloseImage ==
    /\ selectedImage # None
    /\ selectedImage' = None
    /\ ev' = ViewEvent("close", TRUE, 0)
    /\ UNCHANGED <<channelSlug, contents, paging, isMobile, columnCount,
                   minColumns>>

\* handleEscape, lines 297-301
HandleEscape(key) ==
    /\ selectedImage' = IF key = "Escape" /\ selectedImage # None
                        THEN None ELSE selectedImage
    /\ ev' = ViewEvent("key", key = "Escape" /\ selectedImage # None, 0)
    /\ UNCHANGED <<channelSlug, contents, paging, isMobile, columnCount,
                   minColumns>>

NextRender ==
    \/ \E i \in 1..Len(contents) : OpenImage(i)
    \/ CloseImage
    \/ \E key \in {"Escape", "Enter"} : HandleEscape(key)

SpecRender == InitRender /\ [][NextRender]_vars

\* C14: the URL rendered for a block is image.display.url when present and
\* non-empty, otherwise attachment.url when present and non-empty, otherwise
\* the placeholder; it is never empty, and the grid cell and the lightbox
\* give the same URL for the same block.
C14_ImageUrlPrecedence ==
    LET HasImageUrl(b) == b.image # None /\ b.image[1].display.url # ""
        HasAttachmentUrl(b) ==
            /\ b.attachment # None
            /\ b.attachment[1].url # None
            /\ b.attachment[1].url[1] # ""
        Resolved(b) ==
            CASE HasImageUrl(b) -> b.image[1].display.url
              [] ~HasImageUrl(b) /\ HasAttachmentUrl(b) -> b.attachment[1].url[1]
              [] OTHER -> Placeholder
    IN  /\ \A i \in 1..Len(contents) :
              /\ GridSrc(contents[i]) = Resolved(contents[i])
              /\ GridSrc(contents[i]) # ""
              /\ LightboxSrc(contents[i]) = GridSrc(contents[i])
        /\ selectedImage # None =>
              /\ LightboxSrc(selectedImage[1]) = Resolved(selectedImage[1])
              /\ LightboxSrc(selectedImage[1]) # ""

\* C14, its case: the lightbox shows a block whose image URL is empty and
\* whose attachment has a URL, next to a block that has neither
C14_LightboxFallsBackToAttachment ==
    /\ ev.op = "open"
    /\ selectedImage # None
    /\ selectedImage[1].image = Image("")
    /\ selectedImage[1].attachment # None
    /\ selectedImage[1].attachment[1].url = Some("B")
    /\ LightboxSrc(selectedImage[1]) = "B"
    /\ \E i \in 1..Len(contents) : GridSrc(contents[i]) = Placeholder

----------------------------------------------------------------------------
(* randomizeImages, lines 242-250 *)

\* blocks that are shuffled at once
MaxShuffleLen == 4

\* line 246 with the index i itself left out
SwapRangeExcludesSelf(i) == 0..(i - 1)

\* line 246: the values of Math.floor(Math.random() * (i + 1))
SwapRange(i) == 0..i

\* the choices of j in one call for n blocks: one for each i in n-1 .. 1
Choices(n) ==
    {js \in [1..(n - 1) -> 0..(n - 1)] : \A i \in 1..(n - 1) : js[i] \in SwapRange(i)}

\* line 247, for the positions i and j counted from 0
Swapped(s, i, j) == [s EXCEPT ![i + 1] = s[j + 1], ![j + 1] = s[i + 1]]

RECURSIVE ShuffledFrom(_, _, _)
\* lines 245-248, from index i down to 1
ShuffledFrom(s, js, i) ==
    IF i < 1 THEN s ELSE ShuffledFrom(Swapped(s, i, js[i]), js, i - 1)

\* lines 244-248
Shuffled(s, js) == ShuffledFrom(s, js, Len(s) - 1)

\* the blocks that are shuffled: those with an image URL and an attachment
ShufflePool ==
    {b \in RenderBlocks : b.image = Image("A") /\ b.attachment # None}

InitShuffle ==
    /\ \E n \in 0..MaxShuffleLen : \E blocks \in [1..n -> ShufflePool] :
          LoadedWith(blocks)
    /\ Mounted

\* randomizeImages, lines 242-250
RandomizeImages ==
    /\ \E js \in Choices(Len(contents)) : contents' = Shuffled(contents, js)
    /\ ev' = ViewEvent("shuffle", TRUE, 0)
    /\ UNCHANGED <<channelSlug, paging, view>>

NextShuffle == RandomizeImages

SpecShuffle == InitShuffle /\ [][NextShuffle]_vars

\* C15: randomizeImages replaces contents with a rearrangement of itself
\* (same length, same blocks as often), and for n blocks the sequences of
\* swap indices (j in 0..i for i from n-1 down to 1) map one-to-one onto the
\* permutations of n positions: every permutation is the outcome of a choice
\* sequence, and there are as many choice sequences as permutations.
C15_ShuffleIsUnbiasedPermutation ==
    /\ [](LET n == Len(contents)
              positions == [i \in 1..n |-> i]
              outcomes == {Shuffled(positions, js) : js \in Choices(n)}
              permutations == Permutations(1..n)
          IN  /\ outcomes = permutations
              /\ Cardinality(Choices(n)) = Cardinality(permutations))
    /\ [][ev'.op = "shuffle" =>
            \E p \in Permutations(1..Len(contents)) :
               contents' = [i \in 1..Len(contents) |-> contents[p[i]]]]_vars

\* C15, its case: four blocks were shuffled into another order
C15_FourBlocksReordered ==
    /\ ev.op = "shuffle"
    /\ Len(contents) = MaxShuffleLen
    /\ contents # fetched[1]

====
